---- MODULE Spec2Model ----
(***************************************************************************)
(* A model of models/PhueAPI.py: the Bridge session (construction, config  *)
(* file, autodiscovery, registration, connection), the entity registry     *)
(* built by loadDevices, the lookups, and the Light and Group mutators.    *)
(*                                                                         *)
(* Conventions                                                             *)
(*  - Python None and the empty string are both falsy and are never told   *)
(*    apart by the code; both are the empty string "" here.                *)
(*  - A str is a sequence of one-character strings, so that str.lower()    *)
(*    is a computation (Lower) and not the identity.                       *)
(*  - A Python dict keyed by entity id is a sequence of records in         *)
(*    insertion order (dicts iterate in insertion order; assigning to an   *)
(*    existing key keeps its position).                                    *)
(*  - call is the record of the last public operation: its name, its       *)
(*    arguments, how it ended (the returned value or the exception         *)
(*    raised) and the requests it handed to Bridge.sendRequest, in order.  *)
(***************************************************************************)
EXTENDS Integers, Sequences, FiniteSets, TLC

VARIABLES
    alive,      \* a Bridge object exists (its constructor returned)
    ip,         \* Bridge._ip
    username,   \* Bridge._username
    connected,  \* Bridge._connected
    confFile,   \* the content of Bridge._confFile on disk
    groups,     \* Bridge._groups
    lights,     \* Bridge._lights
    scenes,     \* Bridge._scenes
    probed,     \* history: the credentials whose probe succeeded in connect()
    call        \* the last public operation and its outcome

vars == <<alive, ip, username, connected, confFile, groups, lights, scenes, probed, call>>

session == <<alive, ip, username, connected, confFile, probed>>
registry == <<groups, lights, scenes>>

(***************************************************************************)
(* Bounds                                                                  *)
(***************************************************************************)
\* entity ids reported by the bridge are 1..MaxId
MaxId == 2
\* candidates in one answer of the discovery service
MaxCandidates == 2
\* cap on the length of an entity's myScenes list
MaxMyScenes == 2

(***************************************************************************)
(* Strings                                                                 *)
(***************************************************************************)
Range(s) == {s[i] : i \in DOMAIN s}

Min(S) == CHOOSE x \in S : \A y \in S : x <= y

\* str.lower() of one character, over the letters the model's names use
LowerChar(c) ==
    CASE c = "A" -> "a"
      [] c = "B" -> "b"
      [] c = "K" -> "k"
      [] c = "L" -> "l"
      [] OTHER -> c

\* str.lower()
Lower(s) == [i \in DOMAIN s |-> LowerChar(s[i])]

\* 'everywhere', the name given to group 0
Everywhere == <<"e", "v", "e", "r", "y", "w", "h", "e", "r", "e">>

\* 'Last on state', the scene name that is not linked to lights
LastOnState == <<"L", "a", "s", "t", " ", "o", "n", " ", "s", "t", "a", "t", "e">>

(***************************************************************************)
(* Python dicts keyed by id, in insertion order                            *)
(***************************************************************************)
DictHas(d, k) == \E i \in DOMAIN d : d[i].id = k

DictGet(d, k) == d[CHOOSE i \in DOMAIN d : d[i].id = k]

DictKeys(d) == {d[i].id : i \in DOMAIN d}

\* d[k] = v
DictSet(d, k, v) ==
    IF DictHas(d, k)
    THEN [i \in DOMAIN d |-> IF d[i].id = k THEN v ELSE d[i]]
    ELSE Append(d, v)

\* a dict with str keys (state, action): d[k] = v
Put(d, k, v) == [x \in (DOMAIN d) \cup {k} |-> IF x = k THEN v ELSE d[x]]

EmptyDict == <<>>

(***************************************************************************)
(* Requests                                                                *)
(***************************************************************************)
\* a url is the sequence of its path segments; data is a dict
Req(method, url, data) == [method |-> method, url |-> url, data |-> data]

\* Bridge.sendRequest: the path is prefixed with /api unless it starts so
SendRequestUrl(url) ==
    IF url # <<>> /\ url[1] = "api" THEN url ELSE <<"api">> \o url

\* a sendAuthRequest that never prepends the credential
AuthUrl_Never(user, url) == url

\* Bridge.sendAuthRequest: the credential is prepended unless the url
\* already contains it (a substring test; the empty credential is in
\* every url, and a credential is an opaque token that is no part of a
\* resource path unless it is one of its segments)
AuthUrl(user, url) ==
    IF user = "" \/ user \in Range(url) THEN url ELSE <<user>> \o url

SendAuthRequestUrl(user, url) == SendRequestUrl(AuthUrl(user, url))

\* Bridge.errorReturned / Bridge.successReturned on a decoded body:
\* "error" and "success" are one-element lists holding that key, "dict" is
\* a JSON object, "empty" is [] (answer[0] raises IndexError)
errorReturned(body) == body = "error"

successReturned(body) == body = "success"

(***************************************************************************)
(* The config file                                                         *)
(***************************************************************************)
NoFile == [exists |-> FALSE, ip |-> "", username |-> ""]

ConfOf(i, u) == [exists |-> TRUE, ip |-> i, username |-> u]

\* a saveConfigFile that writes nothing
saveConfigFile_Skip(i, u, conf, writeOk) == conf

\* Bridge.saveConfigFile: a failed write is logged and swallowed
saveConfigFile(i, u, conf, writeOk) == IF writeOk THEN ConfOf(i, u) ELSE conf

(***************************************************************************)
(* Entities                                                                *)
(***************************************************************************)
\* Group(**data) followed by Group.init: the name is lower-cased
MakeGroup(data) ==
    [id |-> data.id, name |-> Lower(data.name), state |-> data.state,
     action |-> data.action, myScenes |-> <<>>]

\* the group loadDevices builds for id 0
Group0 ==
    [id |-> 0, name |-> Everywhere,
     state |-> [all_on |-> FALSE, any_on |-> FALSE],
     action |-> EmptyDict, myScenes |-> <<>>]

\* Light(**data) followed by Light.init: the name is lower-cased
MakeLight(data) ==
    [id |-> data.id, name |-> Lower(data.name), state |-> data.state,
     myScenes |-> <<>>]

\* Scene(**data) followed by Scene.init: the name is lower-cased
MakeScene(data) ==
    [id |-> data.id, name |-> Lower(data.name), type |-> data.type,
     group |-> data.group, lights |-> data.lights]

(***************************************************************************)
(* Lookups: Bridge.light, Bridge.group, Bridge.scene                       *)
(* The result is how the call ends and the position in the dict of the     *)
(* entity returned (0 when the call raises).                               *)
(***************************************************************************)
Found(i) == [result |-> "ok", idx |-> i]

Raised(exc) == [result |-> exc, idx |-> 0]

\* for x in d.values(): if x.name == name: return x   (0: the loop ends)
ScanByName(d, name) ==
    LET hits == {i \in DOMAIN d : d[i].name = name}
    IN  IF hits = {} THEN 0 ELSE Min(hits)

IndexOfId(d, k) == CHOOSE i \in DOMAIN d : d[i].id = k

\* a light() that does not ask for a selector
light_NoSelectorCheck(ls, lightId, lightName) ==
    IF lightId = 0
    THEN IF ScanByName(ls, lightName) = 0
         THEN Raised("NoSuchLight")
         ELSE Found(ScanByName(ls, lightName))
    ELSE IF ~DictHas(ls, lightId)
         THEN Raised("NoSuchLight")
         ELSE Found(IndexOfId(ls, lightId))

\* Bridge.light(lightId, lightName)
light(ls, lightId, lightName) ==
    IF lightId = 0 /\ lightName = <<>>
    THEN Raised("SelectorError")
    ELSE IF lightId = 0
         THEN IF ScanByName(ls, lightName) = 0
              THEN Raised("NoSuchLight")
              ELSE Found(ScanByName(ls, lightName))
         ELSE IF ~DictHas(ls, lightId)
              THEN Raised("NoSuchLight")
              ELSE Found(IndexOfId(ls, lightId))

\* Bridge.group(groupId, groupName)
group(gs, groupId, groupName) ==
    IF groupName # <<>>
    THEN IF ScanByName(gs, groupName) = 0
         THEN Raised("NoSuchGroup")
         ELSE Found(ScanByName(gs, groupName))
    ELSE IF ~DictHas(gs, groupId)
         THEN Raised("NoSuchGroup")
         ELSE Found(IndexOfId(gs, groupId))

\* Bridge.scene(sceneId, sceneName)
scene(ss, sceneId, sceneName) ==
    IF sceneId = "" /\ sceneName = <<>>
    THEN Raised("SelectorError")
    ELSE IF sceneId = ""
         THEN IF ScanByName(ss, sceneName) = 0
              THEN Raised("NoSuchScene")
              ELSE Found(ScanByName(ss, sceneName))
         ELSE IF ~DictHas(ss, sceneId)
              THEN Raised("NoSuchScene")
              ELSE Found(IndexOfId(ss, sceneId))

(***************************************************************************)
(* Bridge.loadDevices                                                      *)
(* An answer to a fetch is [kind, data]:                                   *)
(*   neterr   the transport failed: sendRequest raises PhueRequestError    *)
(*   httperr  a response with an error status (falsy), its body no JSON    *)
(*   garbage  a 2xx response whose body is no JSON: req.json() raises      *)
(*   list     a 2xx response holding a JSON list (an error element):       *)
(*            answer.items() raises AttributeError                         *)
(*   dict     a 2xx response holding the JSON object of the entities,      *)
(*            data being its entries in order                              *)
(***************************************************************************)
Answer(kind, data) == [kind |-> kind, data |-> data]

\* the exception a fetch whose response is used ends with ("" for none)
FetchExc(ans) ==
    CASE ans.kind = "neterr" -> "PhueRequestError"
      [] ans.kind = "garbage" -> "JSONDecodeError"
      [] ans.kind = "list" -> "AttributeError"
      [] OTHER -> ""

\* for groupId, data in answer.items(): self._groups[groupId] = group
RECURSIVE InsertGroups(_, _)
InsertGroups(gs, data) ==
    IF data = <<>> THEN gs
    ELSE InsertGroups(DictSet(gs, Head(data).id, MakeGroup(Head(data))), Tail(data))

\* for lightId, data in answer.items(): self._lights[lightId] = light
RECURSIVE InsertLights(_, _)
InsertLights(ls, data) ==
    IF data = <<>> THEN ls
    ELSE InsertLights(DictSet(ls, Head(data).id, MakeLight(Head(data))), Tail(data))

\* x.myScenes.append(sceneId) on the entry at position i
AppendScene(d, i, sceneId) ==
    [d EXCEPT ![i].myScenes = Append(@, sceneId)]

\* a linking that makes up the group a scene names when there is none
LinkGroup_Phantom(gs, groupId, sceneId) ==
    LET r == group(gs, groupId, <<>>)
    IN  IF r.result = "ok" THEN AppendScene(gs, r.idx, sceneId)
        ELSE DictSet(gs, groupId, [Group0 EXCEPT !.id = groupId, !.myScenes = <<sceneId>>])

\* self.group(int(data['group'])).myScenes.append(sceneId), NoSuchGroup passed
LinkGroup(gs, groupId, sceneId) ==
    LET r == group(gs, groupId, <<>>)
    IN  IF r.result = "ok" THEN AppendScene(gs, r.idx, sceneId) ELSE gs

\* for lightId in data['lights']: self.light(int(lightId)).myScenes.append(sceneId),
\* NoSuchLight passed; exc is the exception that ends the loop ("" for none)
RECURSIVE LinkLights(_, _, _)
LinkLights(ls, refs, sceneId) ==
    IF refs = <<>> THEN [lights |-> ls, exc |-> ""]
    ELSE LET r == light(ls, Head(refs), <<>>)
         IN  CASE r.result = "ok" ->
                    LinkLights(AppendScene(ls, r.idx, sceneId), Tail(refs), sceneId)
               [] r.result = "NoSuchLight" -> LinkLights(ls, Tail(refs), sceneId)
               [] OTHER -> [lights |-> ls, exc |-> r.result]

\* the body of the loop over the scenes answer, for one scene
LoadScene(reg, data) ==
    LET ss == DictSet(reg.scenes, data.id, MakeScene(data))
    IN  IF data.type = "GroupScene"
        THEN [reg EXCEPT !.scenes = ss,
                         !.groups = LinkGroup(reg.groups, data.group, data.id)]
        ELSE IF data.type = "LightScene" /\ data.name # LastOnState
             THEN LET l == LinkLights(reg.lights, data.lights, data.id)
                  IN  [reg EXCEPT !.scenes = ss, !.lights = l.lights, !.exc = l.exc]
             ELSE [reg EXCEPT !.scenes = ss]

\* for sceneId, data in answer.items(): ...
RECURSIVE LoadScenes(_, _)
LoadScenes(reg, data) ==
    IF data = <<>> \/ reg.exc # "" THEN reg
    ELSE LoadScenes(LoadScene(reg, Head(data)), Tail(data))

Reg(gs, ls, ss, exc, reqs) ==
    [groups |-> gs, lights |-> ls, scenes |-> ss, exc |-> exc, reqs |-> reqs]

\* a loadDevices that forgets to name group 0
InsertGroup0_Unnamed(gs) == DictSet(gs, 0, [Group0 EXCEPT !.name = <<>>])

\* self._groups[0] = group, the group 'everywhere' with its neutral state
InsertGroup0(gs) == DictSet(gs, 0, Group0)

\* Bridge.loadDevices on the registry (gs, ls, ss) with credential user, the
\* bridge answering the three fetches with gAns, lAns, sAns. exc is the
\* exception the call ends with ("" when it returns).
loadDevices(gs, ls, ss, user, gAns, lAns, sAns) ==
    LET g0 == InsertGroup0(gs)
        reqG == Req("GET", SendAuthRequestUrl(user, <<"groups">>), EmptyDict)
        reqL == Req("GET", SendAuthRequestUrl(user, <<"lights">>), EmptyDict)
        reqS == Req("GET", SendAuthRequestUrl(user, <<"scenes">>), EmptyDict)
        g1 == IF gAns.kind = "dict" THEN InsertGroups(g0, gAns.data) ELSE g0
        l1 == IF lAns.kind = "dict" THEN InsertLights(ls, lAns.data) ELSE ls
    IN  IF FetchExc(gAns) # ""
        THEN Reg(g0, ls, ss, FetchExc(gAns), <<reqG>>)
        ELSE IF FetchExc(lAns) # ""
        THEN Reg(g1, ls, ss, FetchExc(lAns), <<reqG, reqL>>)
        ELSE IF lAns.kind = "httperr"
        THEN Reg(g1, l1, ss, "", <<reqG, reqL>>)
        ELSE IF sAns.kind # "dict"
        THEN Reg(g1, l1, ss,
                 IF sAns.kind = "httperr" THEN "JSONDecodeError" ELSE FetchExc(sAns),
                 <<reqG, reqL, reqS>>)
        ELSE [LoadScenes(Reg(g1, l1, ss, "", <<reqG, reqL, reqS>>), sAns.data)
                EXCEPT !.reqs = <<reqG, reqL, reqS>>]

\* no myScenes list is longer than the cap
WithinCap(gs, ls) ==
    /\ \A i \in DOMAIN gs : Len(gs[i].myScenes) <= MaxMyScenes
    /\ \A i \in DOMAIN ls : Len(ls[i].myScenes) <= MaxMyScenes

(***************************************************************************)
(* Light and Group mutators                                                *)
(* Each operator gives the entity after the call, how the call ended and   *)
(* the requests it made; netOk tells whether the transport delivers a      *)
(* request (sendRequest raises PhueRequestError when it does not).         *)
(***************************************************************************)
BriMin == 1

BriMax == 254

SatMin == 1

SatMax == 254

HueMin == 0

HueMax == 65535

\* an xy coordinate is held in units of 1/XYUnit, so 1.0 is XYUnit
XYUnit == 2

XYMin == 0

XYMax == XYUnit

Min3(a, b, c) == IF a <= b /\ a <= c THEN a ELSE IF b <= c THEN b ELSE c

Max3(a, b, c) == IF a >= b /\ a >= c THEN a ELSE IF b >= c THEN b ELSE c

\* sorted((a, b, c))
Sorted3(a, b, c) == <<Min3(a, b, c), a + b + c - Min3(a, b, c) - Max3(a, b, c), Max3(a, b, c)>>

\* a setter that does not clamp
Clamp_None(lo, v, hi) == v

\* sorted((lo, v, hi))[1]
Clamp(lo, v, hi) == Sorted3(lo, v, hi)[2]

Done(entity, result, reqs) == [entity |-> entity, result |-> result, reqs |-> reqs]

\* a request() that does not look at reachable
LightRequest_NoGate(L, user, method, tail, data, netOk) ==
    Done(L, IF netOk THEN "None" ELSE "PhueRequestError",
         <<Req(method, SendAuthRequestUrl(user, <<"lights", ToString(L.id)>> \o tail), data)>>)

\* Light.request: url is /lights/<id> followed by tail
LightRequest(L, user, method, tail, data, netOk) ==
    IF ~L.state.reachable
    THEN Done(L, "LightNotReachable", <<>>)
    ELSE Done(L, IF netOk THEN "None" ELSE "PhueRequestError",
              <<Req(method, SendAuthRequestUrl(user, <<"lights", ToString(L.id)>> \o tail), data)>>)

\* Light.on, Light.off
LightOnOff(L, user, on, netOk) ==
    LightRequest(L, user, "PUT", <<"state">>, [on |-> on], netOk)

\* Light.alert
LightAlertOp(L, user, state, netOk) ==
    LightRequest(L, user, "PUT", <<"state">>, [alert |-> state], netOk)

\* Light.effect
LightEffectOp(L, user, effect, netOk) ==
    LightRequest(L, user, "PUT", <<"state">>, [effect |-> effect], netOk)

\* Light.configure: the keys of data the state holds are updated, then
\* data is sent
LightConfigureOp(L, user, data, sendToBridge, netOk) ==
    LET st == [k \in DOMAIN L.state |->
                 IF k \in DOMAIN data THEN data[k] ELSE L.state[k]]
        L1 == [L EXCEPT !.state = st]
    IN  IF sendToBridge
        THEN LightRequest(L1, user, "PUT", <<"state">>, data, netOk)
        ELSE Done(L1, "None", <<>>)

\* Light.brightness setter
LightBrightnessOp(L, user, value, netOk) ==
    IF value = 0
    THEN IF LightOnOff(L, user, FALSE, netOk).result = "None"
         THEN Done([L EXCEPT !.state = Put(@, "bri", 0)], "None",
                   LightOnOff(L, user, FALSE, netOk).reqs)
         ELSE LightOnOff(L, user, FALSE, netOk)
    ELSE LightRequest([L EXCEPT !.state = Put(@, "bri", Clamp(BriMin, value, BriMax))],
                      user, "PUT", <<"state">>,
                      [bri |-> Clamp(BriMin, value, BriMax)], netOk)

\* Light.saturation setter
LightSaturationOp(L, user, value, netOk) ==
    LightRequest([L EXCEPT !.state = Put(@, "sat", Clamp(SatMin, value, SatMax))],
                 user, "PUT", <<"state">>,
                 [sat |-> Clamp(SatMin, value, SatMax)], netOk)

\* Light.hue setter
LightHueOp(L, user, value, netOk) ==
    LightRequest([L EXCEPT !.state = Put(@, "hue", Clamp(HueMin, value, HueMax))],
                 user, "PUT", <<"state">>,
                 [hue |-> Clamp(HueMin, value, HueMax)], netOk)

\* Light.xy setter: the clamped pair is cached, value itself is sent
LightXYOp(L, user, value, netOk) ==
    LightRequest([L EXCEPT !.state = Put(@, "xy", <<Clamp(XYMin, value[1], XYMax),
                                                     Clamp(XYMin, value[2], XYMax)>>)],
                 user, "PUT", <<"state">>, [xy |-> value], netOk)

\* Light.mired setter
LightMiredOp(L, user, value, netOk) ==
    LightRequest([L EXCEPT !.state = Put(@, "ct", value)],
                 user, "PUT", <<"state">>, [ct |-> value], netOk)

\* Light.colormode setter: a light without colormode is left alone, an
\* unknown mode becomes 'ct'
LightColormodeOp(L, user, mode, netOk) ==
    IF "colormode" \notin DOMAIN L.state
    THEN Done(L, "None", <<>>)
    ELSE LET m == IF mode \notin {"hs", "xy", "ct"} THEN "ct" ELSE mode
         IN  LightRequest([L EXCEPT !.state = Put(@, "colormode", m)],
                          user, "PUT", <<"state">>, [colormode |-> m], netOk)

\* Light.delete
LightDeleteOp(L, user, netOk) ==
    LightRequest(L, user, "DELETE", <<>>, EmptyDict, netOk)

\* Group.request: url is /groups/<id> followed by tail
GroupRequest(G, user, method, tail, data, netOk) ==
    Done(G, IF netOk THEN "None" ELSE "PhueRequestError",
         <<Req(method, SendAuthRequestUrl(user, <<"groups", ToString(G.id)>> \o tail), data)>>)

\* an on/off that sets the flags only when the request went through
GroupOnOff_Rollback(G, user, on, netOk) ==
    GroupRequest(IF netOk THEN [G EXCEPT !.state = Put(Put(@, "any_on", on), "all_on", on)]
                 ELSE G,
                 user, "PUT", <<"action">>, [on |-> on], netOk)

\* Group.on, Group.off: both flags are set, then the request is made
GroupOnOff(G, user, on, netOk) ==
    GroupRequest([G EXCEPT !.state = Put(Put(@, "any_on", on), "all_on", on)],
                 user, "PUT", <<"action">>, [on |-> on], netOk)

\* Group.brightness setter
GroupBrightnessOp(G, user, value, netOk) ==
    IF value = 0
    THEN IF netOk
         THEN Done([GroupOnOff(G, user, FALSE, netOk).entity
                        EXCEPT !.action = Put(@, "bri", 0)],
                   "None", GroupOnOff(G, user, FALSE, netOk).reqs)
         ELSE GroupOnOff(G, user, FALSE, netOk)
    ELSE GroupRequest([G EXCEPT !.action = Put(@, "bri", Clamp(BriMin, value, BriMax))],
                      user, "PUT", <<"action">>,
                      [bri |-> Clamp(BriMin, value, BriMax)], netOk)

\* Group.saturation setter
GroupSaturationOp(G, user, value, netOk) ==
    GroupRequest([G EXCEPT !.action = Put(@, "sat", Clamp(SatMin, value, SatMax))],
                 user, "PUT", <<"action">>,
                 [sat |-> Clamp(SatMin, value, SatMax)], netOk)

\* Group.hue setter
GroupHueOp(G, user, value, netOk) ==
    GroupRequest([G EXCEPT !.action = Put(@, "hue", Clamp(HueMin, value, HueMax))],
                 user, "PUT", <<"action">>,
                 [hue |-> Clamp(HueMin, value, HueMax)], netOk)

\* the record of a public operation; ret is what a lookup returns (the
\* position of the entity in its dict), 0 otherwise
Call(op, args, result, reqs, ret) ==
    [op |-> op, args |-> args, result |-> result, reqs |-> reqs, ret |-> ret]

(***************************************************************************)
(* The environment of a session                                            *)
(***************************************************************************)
\* network addresses, and the credentials a caller passes or a bridge issues
\* (a bridge issues a non-empty username)
Addrs == {"X", "Y"}

Creds == {"u1", "u2"}

\* what the config file may hold when the program starts: nothing, or what
\* an earlier run saved
StoredConfs == {NoFile} \cup {ConfOf(i, u) : i \in Addrs \cup {""}, u \in Creds \cup {""}}

\* an answer of the discovery service: the request failed (RequestException,
\* JSONDecodeError), or it listed candidates, bridges being the addresses
\* at which isPhueBridge finds a bridge (the service lists an address once)
CandidateLists ==
    {c \in UNION {[1..n -> Addrs] : n \in 0..MaxCandidates} :
        \A j, k \in DOMAIN c : j # k => c[j] # c[k]}

Discoveries ==
    {[net |-> FALSE, candidates |-> <<>>, bridges |-> {}]}
        \cup UNION {{[net |-> TRUE, candidates |-> c, bridges |-> b] :
                        b \in SUBSET Range(c)} : c \in CandidateLists}

NoDiscovery == [net |-> FALSE, candidates |-> <<>>, bridges |-> {}]

\* the body kinds of an answer to the probe and to the registration request
\* (see errorReturned); neterr, httperr and garbage as for a fetch
BodyKinds == {"neterr", "httperr", "garbage", "empty", "error", "success", "dict"}

RegisterAnswers ==
    [kind : BodyKinds \ {"success"}, username : {""}]
        \cup [kind : {"success"}, username : Creds]

NoAnswer == Answer("neterr", <<>>)

(***************************************************************************)
(* Bridge.__init__                                                         *)
(***************************************************************************)
\* the state the constructor leaves, given the stored config; exc is the
\* exception it ends with: the second unlink() of a file the first one
\* removed raises FileNotFoundError
init(conf, ipArg, usernameArg) ==
    LET unlinkIp == conf.exists /\ ipArg # "" /\ ipArg # conf.ip
        unlinkUser == conf.exists /\ usernameArg # "" /\ usernameArg # conf.ip
    IN  [ip |-> IF conf.exists /\ ipArg = "" THEN conf.ip ELSE ipArg,
         username |-> IF conf.exists /\ usernameArg = "" THEN conf.username
                      ELSE usernameArg,
         conf |-> IF unlinkIp \/ unlinkUser THEN NoFile ELSE conf,
         exc |-> IF unlinkIp /\ unlinkUser THEN "FileNotFoundError" ELSE ""]

Construct ==
    \E ipArg \in Addrs \cup {""}, usernameArg \in Creds \cup {""} :
        \E r \in {init(confFile, ipArg, usernameArg)} :
            /\ alive' = (r.exc = "")
            /\ ip' = r.ip
            /\ username' = r.username
            /\ connected' = FALSE
            /\ confFile' = r.conf
            /\ groups' = <<>>
            /\ lights' = <<>>
            /\ scenes' = <<>>
            /\ probed' = {}
            /\ call' = Call("Bridge", [ip |-> ipArg, username |-> usernameArg],
                          IF r.exc = "" THEN "None" ELSE r.exc, <<>>, 0)

(***************************************************************************)
(* Bridge.autodiscover                                                     *)
(***************************************************************************)
\* the position of the first candidate that is a bridge (0: none)
FirstBridge(disc) ==
    LET hits == {i \in DOMAIN disc.candidates : disc.candidates[i] \in disc.bridges}
    IN  IF hits = {} THEN 0 ELSE Min(hits)

autodiscover(i, u, conf, disc, writeOk) ==
    IF ~disc.net
    THEN [ip |-> i, conf |-> conf, exc |-> ""]
    ELSE IF FirstBridge(disc) = 0
         THEN [ip |-> i, conf |-> conf, exc |-> "NoPhueBridgeFound"]
         ELSE [ip |-> disc.candidates[FirstBridge(disc)],
               conf |-> saveConfigFile(disc.candidates[FirstBridge(disc)], u, conf, writeOk),
               exc |-> ""]

Autodiscover ==
    /\ alive
    /\ \E disc \in Discoveries :
       \E writeOk \in (IF FirstBridge(disc) # 0 THEN BOOLEAN ELSE {TRUE}) :
        \E r \in {autodiscover(ip, username, confFile, disc, writeOk)} :
            /\ ip' = r.ip
            /\ confFile' = r.conf
            /\ call' = Call("autodiscover", [found |-> r.ip # ip],
                          IF r.exc = "" THEN "None" ELSE r.exc, <<>>, 0)
    /\ UNCHANGED <<alive, username, connected, probed, registry>>

(***************************************************************************)
(* Bridge.register                                                         *)
(***************************************************************************)
\* the request goes to http://<ip>/api: without an address it cannot be
\* delivered, whatever the bridge would answer
Delivered(i, kind) == IF i = "" THEN "neterr" ELSE kind

register(i, u, conf, saveConnection, ans, writeOk) ==
    LET kind == Delivered(i, ans.kind)
        req == Req("POST", SendRequestUrl(<<>>), [devicetype |-> "phueAPI#phuepython"])
    IN  IF kind \in {"neterr", "httperr", "garbage", "empty"}
        THEN [username |-> u, conf |-> conf, result |-> "PhueRegistrationError", reqs |-> <<req>>]
        ELSE IF errorReturned(kind)
        THEN [username |-> u, conf |-> conf, result |-> "LinkButtonNotPressed", reqs |-> <<req>>]
        ELSE IF successReturned(kind)
        THEN IF saveConnection
             THEN [username |-> ans.username,
                   conf |-> saveConfigFile(i, ans.username, conf, writeOk),
                   result |-> "True", reqs |-> <<req>>]
             ELSE [username |-> u, conf |-> conf, result |-> "True", reqs |-> <<req>>]
        ELSE [username |-> u, conf |-> conf, result |-> "PhueRegistrationError", reqs |-> <<req>>]

Register ==
    /\ alive
    /\ \E saveConnection \in BOOLEAN, ans \in RegisterAnswers :
       \E writeOk \in (IF ans.kind = "success" /\ saveConnection /\ ip # ""
                       THEN BOOLEAN ELSE {TRUE}) :
        \E r \in {register(ip, username, confFile, saveConnection, ans, writeOk)} :
            /\ username' = r.username
            /\ confFile' = r.conf
            /\ call' = Call("register",
                          [saveConnection |-> saveConnection,
                           answer |-> Delivered(ip, ans.kind),
                           issued |-> ans.username,
                           writeOk |-> writeOk],
                          r.result, r.reqs, 0)
    /\ UNCHANGED <<alive, ip, connected, probed, registry>>

(***************************************************************************)
(* Bridge.connect                                                          *)
(***************************************************************************)
\* a connect() that goes on without a credential
MissingCredential_Never(u) == FALSE

\* connect(): if not self._username: raise UnauthorizedUser
MissingCredential(u) == u = ""

\* probedOk: the probe was answered without an error element;
\* loadExc: the exception loadDevices ended with, which connect() logs
connect(i, u, conf, gs, ls, ss, auto, disc, writeOk, probe, gAns, lAns, sAns) ==
    LET a == IF i = "" /\ auto
             THEN autodiscover(i, u, conf, disc, writeOk)
             ELSE [ip |-> i, conf |-> conf, exc |-> ""]
        probeReq == Req("GET", SendRequestUrl(<<u>>), EmptyDict)
        kind == Delivered(a.ip, probe)
        ld == loadDevices(gs, ls, ss, u, gAns, lAns, sAns)
        Ends(i2, conf2, result, reqs, answered) ==
            [ip |-> i2, conf |-> conf2, connected |-> FALSE, probedOk |-> FALSE,
             groups |-> gs, lights |-> ls, scenes |-> ss,
             result |-> result, reqs |-> reqs, probe |-> answered, loadExc |-> ""]
    IN  IF a.exc # ""
        THEN Ends(i, conf, a.exc, <<>>, "none")
        ELSE IF i = "" /\ ~auto
        THEN Ends(i, conf, "NoPhueIP", <<>>, "none")
        ELSE IF MissingCredential(u)
        THEN Ends(a.ip, a.conf, "UnauthorizedUser", <<>>, "none")
        ELSE IF kind \in {"neterr", "httperr", "garbage", "empty"}
        THEN Ends(a.ip, a.conf, "False", <<probeReq>>, kind)
        ELSE IF errorReturned(kind)
        THEN Ends(a.ip, a.conf, "UnauthorizedUser", <<probeReq>>, kind)
        ELSE [ip |-> a.ip, conf |-> a.conf, connected |-> TRUE, probedOk |-> TRUE,
              groups |-> ld.groups, lights |-> ld.lights, scenes |-> ld.scenes,
              result |-> "True", reqs |-> <<probeReq>> \o ld.reqs,
              probe |-> kind, loadExc |-> ld.exc]

\* connect(), the bridge answering the fetches of loadDevices from GA, LA, SA.
\* An input is drawn only where the call consults it.
ConnectIn(GA, LA, SA) ==
    /\ alive
    /\ \E auto \in BOOLEAN :
       \E disc \in (IF ip = "" /\ auto THEN Discoveries ELSE {NoDiscovery}) :
       \E writeOk \in (IF FirstBridge(disc) # 0 THEN BOOLEAN ELSE {TRUE}) :
       \E a \in {IF ip = "" /\ auto
                 THEN autodiscover(ip, username, confFile, disc, writeOk)
                 ELSE [ip |-> ip, conf |-> confFile, exc |-> ""]} :
       \E probe \in (IF ~MissingCredential(username) /\ a.ip # "" /\ a.exc = ""
                     THEN BodyKinds ELSE {"neterr"}) :
       \E gAns \in (IF probe \in {"success", "dict"} THEN GA ELSE {NoAnswer}) :
       \E lAns \in (IF FetchExc(gAns) = "" THEN LA ELSE {NoAnswer}) :
       \E sAns \in (IF lAns.kind = "dict" THEN SA ELSE {NoAnswer}) :
        \E r \in {connect(ip, username, confFile, groups, lights, scenes,
                         auto, disc, writeOk, probe, gAns, lAns, sAns)} :
            /\ WithinCap(r.groups, r.lights)
            /\ ip' = r.ip
            /\ confFile' = r.conf
            /\ connected' = (connected \/ r.connected)
            /\ probed' = IF r.probedOk THEN probed \cup {username} ELSE probed
            /\ groups' = r.groups
            /\ lights' = r.lights
            /\ scenes' = r.scenes
            /\ call' = Call("connect",
                          [autodiscover |-> auto,
                           discovered |-> IF r.ip # ip THEN r.ip ELSE "",
                           probe |-> r.probe,
                           loadExc |-> r.loadExc],
                          r.result, r.reqs, 0)
    /\ UNCHANGED <<alive, username>>

\* loadDevices() called by the program itself
LoadDevicesIn(GA, LA, SA) ==
    /\ alive
    /\ \E gAns \in GA :
       \E lAns \in (IF FetchExc(gAns) = "" THEN LA ELSE {NoAnswer}) :
       \E sAns \in (IF lAns.kind = "dict" THEN SA ELSE {NoAnswer}) :
        \E r \in {loadDevices(groups, lights, scenes, username, gAns, lAns, sAns)} :
            /\ WithinCap(r.groups, r.lights)
            /\ groups' = r.groups
            /\ lights' = r.lights
            /\ scenes' = r.scenes
            /\ call' = Call("loadDevices",
                          [groups |-> gAns.kind, lights |-> lAns.kind,
                           scenes |-> sAns.kind],
                          IF r.exc = "" THEN "None" ELSE r.exc, r.reqs, 0)
    /\ UNCHANGED session

(***************************************************************************)
(* What the bridge reports                                                 *)
(***************************************************************************)
NameKa == <<"K", "a">>

Nameka == <<"k", "a">>

NameLb == <<"L", "b">>

\* a group as GET /groups reports it
GroupEntry(id, name) ==
    [id |-> id, name |-> name,
     state |-> [all_on |-> FALSE, any_on |-> TRUE],
     action |-> [on |-> TRUE, bri |-> 100, hue |-> 1000, sat |-> 100]]

\* a colour light as GET /lights reports it (xy in units of 1/XYUnit)
ColourLight(id, name, on, reachable) ==
    [id |-> id, name |-> name,
     state |-> [on |-> on, bri |-> 100, hue |-> 1000, sat |-> 100,
                xy |-> <<1, 1>>, ct |-> 300, colormode |-> "xy",
                reachable |-> reachable]]

\* a dimmable white light: its state holds no colour and no colormode
WhiteLight(id, name, on, reachable) ==
    [id |-> id, name |-> name,
     state |-> [on |-> on, bri |-> 100, reachable |-> reachable]]

LightEntry(id, name, reachable) == ColourLight(id, name, TRUE, reachable)

\* a scene as GET /scenes reports it; a LightScene has no group (0 here)
SceneEntry(id, name, type, groupId, lightIds) ==
    [id |-> id, name |-> name, type |-> type, group |-> groupId, lights |-> lightIds]

\* the answers that carry no entities
Failures == {Answer(k, <<>>) : k \in {"neterr", "httperr", "garbage", "list"}}

(***************************************************************************)
(* The session: construction, discovery, registration, connection          *)
(***************************************************************************)
SessionGroups ==
    {Answer("neterr", <<>>), Answer("dict", <<>>),
     Answer("dict", <<GroupEntry(1, NameKa)>>)}

SessionLights ==
    {Answer("httperr", <<>>), Answer("dict", <<LightEntry(1, NameKa, TRUE)>>)}

SessionScenes == {Answer("dict", <<SceneEntry("s1", NameKa, "LightScene", 0, <<1>>)>>)}

Connect == ConnectIn(SessionGroups, SessionLights, SessionScenes)

LoadDevices == LoadDevicesIn(SessionGroups, SessionLights, SessionScenes)

Init ==
    /\ alive = FALSE
    /\ ip = ""
    /\ username = ""
    /\ connected = FALSE
    /\ confFile \in StoredConfs
    /\ groups = <<>>
    /\ lights = <<>>
    /\ scenes = <<>>
    /\ probed = {}
    /\ call = Call("none", <<>>, "None", <<>>, 0)

Next == Construct \/ Autodiscover \/ Register \/ Connect \/ LoadDevices

Spec == Init /\ [][Next]_vars

(***************************************************************************)
(* C1                                                                      *)
(***************************************************************************)
\* C1 as claimed: whenever the session is connected, its credential is
\* non-empty and a probe of /api/<that credential> was answered without an
\* error element during a connect() call.
C1_Claimed == connected => (username # "" /\ username \in probed)

\* C1 as amended: whenever the session is connected, its credential is
\* non-empty and a probe of /api/<the non-empty credential held during a
\* connect() call> was answered without an error element; the credential a
\* later register() stores need not be the probed one.
C1_ConnectedImpliesProbed ==
    connected => (username # "" /\ probed # {} /\ "" \notin probed)

\* a connected session whose credential register() replaced after the probe
C1_Witness ==
    /\ connected
    /\ call.op = "register"
    /\ call.result = "True"
    /\ username \notin probed

(***************************************************************************)
(* C2                                                                      *)
(***************************************************************************)
\* a session just constructed with no stored config, address or credential
Fresh == alive /\ ip = "" /\ username = "" /\ ~confFile.exists /\ ~connected

\* every request of the last call is /api/<credential>/...
AllAuthenticated ==
    \A k \in DOMAIN call.reqs :
        /\ Len(call.reqs[k].url) >= 2
        /\ call.reqs[k].url[1] = "api"
        /\ call.reqs[k].url[2] = username

\* C2 as claimed: on a fresh session with no stored config,
\* connect(autodiscover=true) with a bridge found at an address ends with
\* connected == true.
C2_Claimed ==
    [][(Fresh /\ call'.op = "connect" /\ call'.args.autodiscover
            /\ call'.args.discovered # "")
        => connected']_vars

\* C2 as amended: on a fresh session, connect(autodiscover=true) with a
\* bridge found at address X stores X and raises UnauthorizedUser, the
\* session staying unconnected; a connect() that returns true leaves the
\* session connected with group 0 in the registry, and once connected the
\* requests of connect() and loadDevices() carry the stored credential.
C2_FreshConnectNeedsCredential ==
    [][/\ (Fresh /\ call'.op = "connect" /\ call'.args.autodiscover
                /\ call'.args.discovered # "")
            => /\ call'.result = "UnauthorizedUser"
               /\ ~connected'
               /\ ip' = call'.args.discovered
               /\ ip' \in Addrs
       /\ (call'.op = "connect" /\ call'.result = "True")
            => (connected' /\ Len(groups') >= 1 /\ DictHas(groups', 0))
       /\ (connected' /\ call'.op \in {"connect", "loadDevices"})
            => AllAuthenticated'
      ]_vars

\* connect(autodiscover=true) found a bridge and raised for want of a credential
C2_Witness ==
    /\ call.op = "connect"
    /\ call.args.autodiscover
    /\ call.args.discovered # ""
    /\ call.result = "UnauthorizedUser"
    /\ username = ""
    /\ ~connected

(***************************************************************************)
(* C3                                                                      *)
(***************************************************************************)
\* C3: a register() answered by an error element raises LinkButtonNotPressed
\* and leaves the credential and the config file as they were; a register()
\* (saveConnection at its default, true) answered by a success element
\* returns true, stores the non-empty username the bridge issued and, the
\* write succeeding, leaves {ip, username} in the config file.
C3_RegisterScenario ==
    [][/\ (call'.op = "register" /\ call'.args.answer = "error")
            => /\ call'.result = "LinkButtonNotPressed"
               /\ username' = username
               /\ confFile' = confFile
       /\ (call'.op = "register" /\ call'.args.answer = "success"
                /\ call'.args.saveConnection /\ call'.args.writeOk)
            => /\ call'.result = "True"
               /\ username' = call'.args.issued
               /\ username' # ""
               /\ confFile' = ConfOf(ip, username')
      ]_vars

\* a register() that succeeded after the session held another credential
C3_Witness ==
    /\ call.op = "register"
    /\ call.result = "True"
    /\ call.args.saveConnection
    /\ call.args.writeOk
    /\ confFile = ConfOf(ip, username)
    /\ username # ""

(***************************************************************************)
(* The registry: loadDevices and the lookups                               *)
(***************************************************************************)
\* the ids of the groups an answer lists: any of the ids 1..MaxId, a JSON
\* object holding a key once and the bridge listing its keys in ascending
\* order (the registry's own order still varies with the loads before)
IdLists ==
    {l \in UNION {[1..n -> 1..MaxId] : n \in 0..MaxId} :
        \A j, k \in DOMAIN l : j < k => l[j] < l[k]}

\* the name the bridge holds for a group or light: 'Ka' for an odd id and
\* 'ka' for an even one
BridgeName(id) == IF id % 2 = 1 THEN NameKa ELSE Nameka

RegistryGroups ==
    Failures \cup {Answer("dict", [k \in DOMAIN l |-> GroupEntry(l[k], BridgeName(l[k]))]) :
                     l \in IdLists}

\* a bridge with no light, with light 1, and with lights 1 and 2
RegistryLights ==
    Failures \cup {Answer("dict", <<>>),
                   Answer("dict", <<LightEntry(1, BridgeName(1), TRUE)>>),
                   Answer("dict", <<LightEntry(1, BridgeName(1), TRUE),
                                    LightEntry(2, BridgeName(2), TRUE)>>)}

RegistryScenes ==
    {Answer("dict", <<>>),
     Answer("dict", <<SceneEntry("s1", NameKa, "LightScene", 0, <<1>>)>>)}

\* the ids an answer reports
Reported(ans) == IF ans.kind = "dict" THEN {ans.data[k].id : k \in DOMAIN ans.data} ELSE {}

\* loadDevices() against a bridge with any data set
LoadDevicesAny ==
    /\ alive
    /\ \E gAns \in RegistryGroups :
       \E lAns \in (IF FetchExc(gAns) = "" THEN RegistryLights ELSE {NoAnswer}) :
       \E sAns \in (IF lAns.kind = "dict" THEN RegistryScenes ELSE {NoAnswer}) :
       \E r \in {loadDevices(groups, lights, scenes, username, gAns, lAns, sAns)} :
            /\ WithinCap(r.groups, r.lights)
            /\ groups' = r.groups
            /\ lights' = r.lights
            /\ scenes' = r.scenes
            /\ call' = Call("loadDevices",
                          [groups |-> Reported(gAns), lights |-> Reported(lAns),
                           scenes |-> Reported(sAns),
                           complete |-> (gAns.kind = "dict" /\ lAns.kind = "dict"
                                            /\ sAns.kind = "dict")],
                          IF r.exc = "" THEN "None" ELSE r.exc, r.reqs, 0)
    /\ UNCHANGED session

\* the names a caller asks for
QueryNames == {NameKa, Nameka, NameLb, Everywhere}

\* the names a lookup is given: any or none without an id, and one or none
\* along with an id
Selectors(withId) ==
    IF withId THEN {NameKa, <<>>} ELSE QueryNames \cup {<<>>}

LookupLight ==
    /\ alive
    /\ \E lightId \in 0..(MaxId + 1) :
       \E lightName \in Selectors(lightId # 0) :
       \E r \in {light(lights, lightId, lightName)} :
            call' = Call("light", [id |-> lightId, name |-> lightName],
                         r.result, <<>>, r.idx)
    /\ UNCHANGED <<session, registry>>

LookupGroup ==
    /\ alive
    /\ \E groupId \in 0..(MaxId + 1) :
       \E groupName \in Selectors(groupId # 0) :
       \E r \in {group(groups, groupId, groupName)} :
            call' = Call("group", [id |-> groupId, name |-> groupName],
                         r.result, <<>>, r.idx)
    /\ UNCHANGED <<session, registry>>

LookupScene ==
    /\ alive
    /\ \E sceneId \in {"", "s1", "s2"} :
       \E sceneName \in Selectors(sceneId # "") :
       \E r \in {scene(scenes, sceneId, sceneName)} :
            call' = Call("scene", [id |-> sceneId, name |-> sceneName],
                         r.result, <<>>, r.idx)
    /\ UNCHANGED <<session, registry>>

\* the session Bridge(ip='X', username='u1') leaves when no config is stored
InitRegistry ==
    /\ alive = TRUE
    /\ ip = "X"
    /\ username = "u1"
    /\ connected = FALSE
    /\ confFile = NoFile
    /\ groups = <<>>
    /\ lights = <<>>
    /\ scenes = <<>>
    /\ probed = {}
    /\ call = Call("Bridge", [ip |-> "X", username |-> "u1"], "None", <<>>, 0)

NextRegistry == LoadDevicesAny \/ LookupLight \/ LookupGroup \/ LookupScene

SpecRegistry == InitRegistry /\ [][NextRegistry]_vars

(***************************************************************************)
(* C4                                                                      *)
(***************************************************************************)
\* C4 as claimed: after a loadDevices() call that completes, all three
\* fetches answered with their entities, the groups hold exactly group 0 and
\* the groups the bridge reported in that call, and the lights and scenes
\* exactly those it reported: no entry of an earlier load survives.
C4_Claimed ==
    (call.op = "loadDevices" /\ call.result = "None" /\ call.args.complete)
        => /\ DictKeys(groups) = {0} \cup call.args.groups
           /\ DictKeys(lights) = call.args.lights
           /\ DictKeys(scenes) = call.args.scenes

(***************************************************************************)
(* C5                                                                      *)
(***************************************************************************)
\* C5: after every loadDevices() call, however the fetches were answered
\* and however the call ended, group 0 is in the registry, named
\* 'everywhere', with state {all_on: false, any_on: false}, and it is the
\* first entry of the groups, ahead of every group the bridge reported.
C5_EverywhereGroup ==
    call.op = "loadDevices"
        => /\ groups # <<>>
           /\ groups[1].id = 0
           /\ groups[1].name = Everywhere
           /\ groups[1].state = [all_on |-> FALSE, any_on |-> FALSE]
           /\ \A k \in DOMAIN groups : k # 1 => groups[k].id # 0

\* a reload in which the bridge reported groups
C5_Witness ==
    /\ call.op = "loadDevices"
    /\ call.args.groups # {}
    /\ Len(groups) > Cardinality(call.args.groups) + 1
    /\ groups[1].name = Everywhere

(***************************************************************************)
(* C6                                                                      *)
(***************************************************************************)
\* the last call was a lookup with neither an id nor a name
NoSelector ==
    \/ call.op \in {"light", "group"} /\ call.args.id = 0 /\ call.args.name = <<>>
    \/ call.op = "scene" /\ call.args.id = "" /\ call.args.name = <<>>

\* C6 as claimed: light(), group() and scene() called with neither an id
\* nor a name raise SelectorError.
C6_Claimed == NoSelector => call.result = "SelectorError"

\* C6 as amended: light() and scene() called with neither an id nor a name
\* raise SelectorError; group() called with neither never does: it looks up
\* id 0, returning the group 'everywhere' once loadDevices has run and
\* raising NoSuchGroup before.
C6_SelectorRequired ==
    NoSelector
        => IF call.op = "group"
           THEN IF DictHas(groups, 0)
                THEN call.result = "ok" /\ groups[call.ret].id = 0
                ELSE call.result = "NoSuchGroup"
           ELSE call.result = "SelectorError" /\ call.ret = 0

\* group() with no selector returned the group 'everywhere'
C6_Witness ==
    /\ NoSelector
    /\ call.op = "group"
    /\ call.result = "ok"
    /\ groups[call.ret].name = Everywhere

(***************************************************************************)
(* C7                                                                      *)
(***************************************************************************)
\* the positions of the entities of d whose name is q, case disregarded
MatchesNoCase(d, q) == {k \in DOMAIN d : Lower(d[k].name) = Lower(q)}

\* the last call was light(lightName=q) or group(groupName=q)
ByName ==
    \/ call.op = "light" /\ call.args.id = 0 /\ call.args.name # <<>>
    \/ call.op = "group" /\ call.args.id = 0 /\ call.args.name # <<>>

\* C7 as claimed: light(name=q) and group(name=q) return the first entity,
\* in insertion order, whose name equals q without regard to case, and raise
\* NoSuchLight / NoSuchGroup only when there is none.
C7_Claimed ==
    ByName =>
        LET d == IF call.op = "light" THEN lights ELSE groups
        IN  IF MatchesNoCase(d, call.args.name) = {}
            THEN call.result = (IF call.op = "light" THEN "NoSuchLight" ELSE "NoSuchGroup")
            ELSE call.result = "ok" /\ call.ret = Min(MatchesNoCase(d, call.args.name))

(***************************************************************************)
(* The mutators as operations on the entities of the registry              *)
(***************************************************************************)
\* the light at position i becomes r.entity; the call is recorded
LightCall(i, op, value, r) ==
    /\ lights' = [lights EXCEPT ![i] = r.entity]
    /\ call' = Call(op, [id |-> lights[i].id, value |-> value], r.result, r.reqs, 0)
    /\ UNCHANGED <<session, groups, scenes>>

\* the group at position i becomes r.entity; the call is recorded
GroupCall(i, op, value, r) ==
    /\ groups' = [groups EXCEPT ![i] = r.entity]
    /\ call' = Call(op, [id |-> groups[i].id, value |-> value], r.result, r.reqs, 0)
    /\ UNCHANGED <<session, lights, scenes>>

LightOn ==
    \E i \in DOMAIN lights, netOk \in BOOLEAN :
        LightCall(i, "Light.on", TRUE, LightOnOff(lights[i], username, TRUE, netOk))

LightOff ==
    \E i \in DOMAIN lights, netOk \in BOOLEAN :
        LightCall(i, "Light.off", FALSE, LightOnOff(lights[i], username, FALSE, netOk))

LightAlert ==
    \E i \in DOMAIN lights, netOk \in BOOLEAN :
        LightCall(i, "Light.alert", "lselect",
                  LightAlertOp(lights[i], username, "lselect", netOk))

LightEffect ==
    \E i \in DOMAIN lights, netOk \in BOOLEAN :
        LightCall(i, "Light.effect", "colorloop",
                  LightEffectOp(lights[i], username, "colorloop", netOk))

\* the dicts a caller configures a light with: a key of the state, and a
\* key no state holds
ConfigureData == {[on |-> FALSE], [transitiontime |-> 10]}

LightConfigure ==
    \E i \in DOMAIN lights, data \in ConfigureData, sendToBridge \in BOOLEAN :
    \E netOk \in (IF sendToBridge THEN BOOLEAN ELSE {TRUE}) :
        LightCall(i, "Light.configure", [data |-> data, sendToBridge |-> sendToBridge],
                  LightConfigureOp(lights[i], username, data, sendToBridge, netOk))

LightBrightness(V) ==
    \E i \in DOMAIN lights, value \in V, netOk \in BOOLEAN :
        LightCall(i, "Light.brightness", value,
                  LightBrightnessOp(lights[i], username, value, netOk))

LightSaturation(V) ==
    \E i \in DOMAIN lights, value \in V, netOk \in BOOLEAN :
        LightCall(i, "Light.saturation", value,
                  LightSaturationOp(lights[i], username, value, netOk))

LightHue(V) ==
    \E i \in DOMAIN lights, value \in V, netOk \in BOOLEAN :
        LightCall(i, "Light.hue", value,
                  LightHueOp(lights[i], username, value, netOk))

LightXY(V) ==
    \E i \in DOMAIN lights, value \in V, netOk \in BOOLEAN :
        LightCall(i, "Light.xy", value,
                  LightXYOp(lights[i], username, value, netOk))

LightMired(V) ==
    \E i \in DOMAIN lights, value \in V, netOk \in BOOLEAN :
        LightCall(i, "Light.mired", value,
                  LightMiredOp(lights[i], username, value, netOk))

LightColormode(V) ==
    \E i \in DOMAIN lights, mode \in V, netOk \in BOOLEAN :
        LightCall(i, "Light.colormode", mode,
                  LightColormodeOp(lights[i], username, mode, netOk))

LightDelete ==
    \E i \in DOMAIN lights, netOk \in BOOLEAN :
        LightCall(i, "Light.delete", 0, LightDeleteOp(lights[i], username, netOk))

GroupBrightness(V) ==
    \E i \in DOMAIN groups, value \in V, netOk \in BOOLEAN :
        GroupCall(i, "Group.brightness", value,
                  GroupBrightnessOp(groups[i], username, value, netOk))

GroupSaturation(V) ==
    \E i \in DOMAIN groups, value \in V, netOk \in BOOLEAN :
        GroupCall(i, "Group.saturation", value,
                  GroupSaturationOp(groups[i], username, value, netOk))

GroupHue(V) ==
    \E i \in DOMAIN groups, value \in V, netOk \in BOOLEAN :
        GroupCall(i, "Group.hue", value,
                  GroupHueOp(groups[i], username, value, netOk))

\* the values a caller submits: below the range, the bounds, above it
BriInputs == {BriMin - 6, 0, BriMin, BriMax, BriMax + 1}

SatInputs == {SatMin - 6, 0, SatMax, SatMax + 1}

HueInputs == {HueMin - 1, HueMin, HueMax, HueMax + 1}

XYInputs ==
    {<<XYMin - 1, XYMax + 1>>, <<XYMax + 1, 1>>, <<1, XYMin - 1>>, <<XYMin, XYMax>>}

\* the session after Bridge(ip='X', username='u1').connect(), the bridge
\* reporting no group, the one light entry and no scene
InitWith(entry) ==
    /\ alive = TRUE
    /\ ip = "X"
    /\ username = "u1"
    /\ connected = TRUE
    /\ confFile = NoFile
    /\ probed = {"u1"}
    /\ \E r \in {connect("X", "u1", NoFile, <<>>, <<>>, <<>>, FALSE, NoDiscovery, TRUE,
                         "dict", Answer("dict", <<>>), Answer("dict", <<entry>>),
                         Answer("dict", <<>>))} :
        /\ groups = r.groups
        /\ lights = r.lights
        /\ scenes = r.scenes
        /\ call = Call("connect",
                       [autodiscover |-> FALSE, discovered |-> "", probe |-> r.probe,
                        loadExc |-> r.loadExc],
                       r.result, r.reqs, 0)

\* a connected session whose bridge holds one group and no light
InitWithGroup(entry) ==
    /\ alive = TRUE
    /\ ip = "X"
    /\ username = "u1"
    /\ connected = TRUE
    /\ confFile = NoFile
    /\ probed = {"u1"}
    /\ \E r \in {connect("X", "u1", NoFile, <<>>, <<>>, <<>>, FALSE, NoDiscovery, TRUE,
                         "dict", Answer("dict", <<entry>>), Answer("dict", <<>>),
                         Answer("dict", <<>>))} :
        /\ groups = r.groups
        /\ lights = r.lights
        /\ scenes = r.scenes
        /\ call = Call("connect",
                       [autodiscover |-> FALSE, discovered |-> "", probe |-> r.probe,
                        loadExc |-> r.loadExc],
                       r.result, r.reqs, 0)

(***************************************************************************)
(* One light, every Light mutator                                          *)
(***************************************************************************)
InitLight ==
    \E on \in BOOLEAN, reachable \in BOOLEAN :
        \/ InitWith(ColourLight(1, NameKa, on, reachable))
        \/ InitWith(WhiteLight(1, NameKa, on, reachable))

NextLight ==
    \/ LightOn
    \/ LightOff
    \/ LightAlert
    \/ LightEffect
    \/ LightConfigure
    \/ LightBrightness({0, BriMax + 1})
    \/ LightSaturation({SatMax + 1})
    \/ LightHue({HueMax + 1})
    \/ LightXY({<<XYMax + 1, XYMin - 1>>})
    \/ LightMired({153})
    \/ LightColormode({"hs", "rgb"})
    \/ LightDelete

SpecLight == InitLight /\ [][NextLight]_vars

(***************************************************************************)
(* Brightness and saturation of a light and of a group                     *)
(***************************************************************************)
InitSetters == \E reachable \in BOOLEAN : InitWith(ColourLight(1, NameKa, TRUE, reachable))

NextBriSat ==
    \/ LightBrightness(BriInputs)
    \/ LightSaturation(SatInputs)
    \/ GroupBrightness(BriInputs)
    \/ GroupSaturation(SatInputs)

SpecBriSat == InitSetters /\ [][NextBriSat]_vars

(***************************************************************************)
(* Hue and xy of a light, hue of a group                                   *)
(***************************************************************************)
NextHueXY ==
    \/ LightHue(HueInputs)
    \/ LightXY(XYInputs)
    \/ GroupHue(HueInputs)

SpecHueXY == InitSetters /\ [][NextHueXY]_vars

(***************************************************************************)
(* C8                                                                      *)
(***************************************************************************)
LightMutators ==
    {"Light.on", "Light.off", "Light.alert", "Light.effect", "Light.configure",
     "Light.brightness", "Light.saturation", "Light.hue", "Light.xy",
     "Light.mired", "Light.colormode", "Light.delete"}

\* the last call was a mutator of a light whose reachable flag is false
\* (no mutator of the model changes the flag)
OnUnreachable ==
    /\ call.op \in LightMutators
    /\ ~DictGet(lights, call.args.id).state.reachable

\* the two calls that end before Light.request is reached
ReturnsBeforeRequest ==
    \/ call.op = "Light.configure" /\ ~call.args.value.sendToBridge
    \/ call.op = "Light.colormode"
           /\ "colormode" \notin DOMAIN DictGet(lights, call.args.id).state

Nearest(lo, v, hi) == IF v < lo THEN lo ELSE hi

\* the entity the last call was made on can make a request
CanRequest ==
    \/ call.op \in {"Group.brightness", "Group.saturation", "Group.hue"}
    \/ DictGet(lights, call.args.id).state.reachable

\* the field the last setter wrote, read back from the entity's cache
Cached(key) ==
    IF call.op \in {"Group.brightness", "Group.saturation", "Group.hue"}
    THEN DictGet(groups, call.args.id).action[key]
    ELSE DictGet(lights, call.args.id).state[key]

\* every request of the last call carries exactly data, and one was made if
\* the entity can make one
SentOnly(data) ==
    /\ \A k \in DOMAIN call.reqs : call.reqs[k].method = "PUT" /\ call.reqs[k].data = data
    /\ CanRequest => Len(call.reqs) = 1

\* C9: a brightness or saturation submitted to a Light or Group setter
\* outside [1,254] is cached and sent as the nearest bound; brightness 0
\* sends {on: false} and no brightness, and caches brightness 0 once that
\* request went through.
C9_BriSatClamped ==
    /\ (call.op \in {"Light.brightness", "Group.brightness"}
            /\ call.args.value \notin BriMin..BriMax /\ call.args.value # 0)
        => /\ Cached("bri") = Nearest(BriMin, call.args.value, BriMax)
           /\ SentOnly([bri |-> Nearest(BriMin, call.args.value, BriMax)])
    /\ (call.op \in {"Light.saturation", "Group.saturation"}
            /\ call.args.value \notin SatMin..SatMax)
        => /\ Cached("sat") = Nearest(SatMin, call.args.value, SatMax)
           /\ SentOnly([sat |-> Nearest(SatMin, call.args.value, SatMax)])
    /\ (call.op \in {"Light.brightness", "Group.brightness"} /\ call.args.value = 0)
        => /\ SentOnly([on |-> FALSE])
           /\ call.result = "None" => Cached("bri") = 0

\* a brightness above the range was sent by a light
C9_Witness ==
    /\ call.op = "Light.brightness"
    /\ call.args.value > BriMax
    /\ Len(call.reqs) = 1
    /\ call.reqs[1].data = [bri |-> BriMax]
    /\ DictGet(lights, call.args.id).state.bri = BriMax

(***************************************************************************)
(* C10                                                                     *)
(***************************************************************************)
\* v brought into lo..hi
Within(lo, v, hi) == IF v < lo THEN lo ELSE IF v > hi THEN hi ELSE v

\* C10 as claimed: a submitted hue is cached and sent clamped to [0,65535],
\* and each coordinate of a submitted xy pair is clamped to [0,1] in the
\* cached pair and in the pair sent.
C10_Claimed ==
    /\ call.op \in {"Light.hue", "Group.hue"}
        => /\ Cached("hue") = Within(HueMin, call.args.value, HueMax)
           /\ SentOnly([hue |-> Within(HueMin, call.args.value, HueMax)])
    /\ call.op = "Light.xy"
        => /\ Cached("xy") = <<Within(XYMin, call.args.value[1], XYMax),
                               Within(XYMin, call.args.value[2], XYMax)>>
           /\ SentOnly([xy |-> <<Within(XYMin, call.args.value[1], XYMax),
                                 Within(XYMin, call.args.value[2], XYMax)>>])

(***************************************************************************)
(* Scenes: the cross-linking of loadDevices                                *)
(***************************************************************************)
\* the scenes the bridge may hold: one of group 1, one of group 2, one of
\* lights 1 and 2, and the reserved 'Last on state' of light 1
ScenePool ==
    <<SceneEntry("s1", NameKa, "GroupScene", 1, <<>>),
      SceneEntry("s2", NameLb, "GroupScene", 2, <<>>),
      SceneEntry("s3", NameKa, "LightScene", 0, <<1, 2>>),
      SceneEntry("s4", LastOnState, "LightScene", 0, <<1>>)>>

\* at most MaxScenes scenes of the pool, in the order the bridge lists them
MaxScenes == 2

ScenePicks ==
    {l \in UNION {[1..n -> DOMAIN ScenePool] : n \in 0..MaxScenes} :
        \A j, k \in DOMAIN l : j < k => l[j] < l[k]}

\* the bridge holds group 1 or no group, and light 1: group 2 and light 2
\* are never in the registry
ScenesGroups == {Answer("dict", <<>>), Answer("dict", <<GroupEntry(1, NameKa)>>)}

ScenesLights == {Answer("dict", <<LightEntry(1, NameKa, TRUE)>>)}

ScenesScenes == {Answer("dict", [k \in DOMAIN l |-> ScenePool[l[k]]]) : l \in ScenePicks}

\* loadDevices() against a bridge that answers all three fetches
LoadDevicesScenes ==
    /\ alive
    /\ \E gAns \in ScenesGroups, lAns \in ScenesLights, sAns \in ScenesScenes :
       \E r \in {loadDevices(groups, lights, scenes, username, gAns, lAns, sAns)} :
            /\ WithinCap(r.groups, r.lights)
            /\ groups' = r.groups
            /\ lights' = r.lights
            /\ scenes' = r.scenes
            /\ call' = Call("loadDevices",
                          [groups |-> Reported(gAns), lights |-> Reported(lAns),
                           scenes |-> Reported(sAns), complete |-> TRUE,
                           sceneData |-> sAns.data],
                          IF r.exc = "" THEN "None" ELSE r.exc, r.reqs, 0)
    /\ UNCHANGED session

NextScenes == LoadDevicesScenes

SpecScenes == InitRegistry /\ [][NextScenes]_vars

(***************************************************************************)
(* C11                                                                     *)
(***************************************************************************)
\* the ids of the entries of data that satisfy Test, in order
IdsWhere(data, Test(_)) ==
    LET sel == SelectSeq(data, Test) IN [k \in DOMAIN sel |-> sel[k].id]

\* the scenes of data that name group gid
GroupSceneIds(data, gid) ==
    IdsWhere(data, LAMBDA d : d.type = "GroupScene" /\ d.group = gid)

\* the scenes of data, 'Last on state' aside, that list light lid
LightSceneIds(data, lid) ==
    IdsWhere(data, LAMBDA d : /\ d.type = "LightScene"
                              /\ d.name # LastOnState
                              /\ \E k \in DOMAIN d.lights : d.lights[k] = lid)

\* myScenes of entity id before the scenes are linked: empty for an entity
\* the call built anew, what it was for one that an earlier call left
Before(old, id, rebuilt) ==
    IF id \in rebuilt \/ ~DictHas(old, id) THEN <<>> ELSE DictGet(old, id).myScenes

\* C11: a loadDevices() whose fetches are all answered returns without
\* raising, whatever the scenes reference; the groups afterwards are those
\* held before, group 0 and those reported, so a GroupScene of an unknown
\* group adds none; each group's myScenes gains exactly the ids of the
\* GroupScenes that name it and each light's exactly the ids of the
\* LightScenes, 'Last on state' aside, that list it, in the order reported.
C11_SceneLinks ==
    [][call'.op = "loadDevices"
        => /\ call'.result = "None"
           /\ DictKeys(groups') = DictKeys(groups) \cup {0} \cup call'.args.groups
           /\ DictKeys(lights') = DictKeys(lights) \cup call'.args.lights
           /\ \A k \in DOMAIN groups' :
                groups'[k].myScenes =
                    Before(groups, groups'[k].id, {0} \cup call'.args.groups)
                        \o GroupSceneIds(call'.args.sceneData, groups'[k].id)
           /\ \A k \in DOMAIN lights' :
                lights'[k].myScenes =
                    Before(lights, lights'[k].id, call'.args.lights)
                        \o LightSceneIds(call'.args.sceneData, lights'[k].id)
      ]_vars

\* a load that met a GroupScene of a group the registry does not hold, the
\* reserved scene, and a LightScene it linked to light 1
C11_Witness ==
    /\ call.op = "loadDevices"
    /\ "s2" \in call.args.scenes
    /\ ~DictHas(groups, 2)
    /\ DictHas(scenes, "s4")
    /\ DictHas(scenes, "s3")
    /\ DictGet(lights, 1).myScenes = <<"s3">>

(***************************************************************************)
(* Group.rename                                                            *)
(* The answer to the PUT is a failure kind or a JSON list of elements;     *)
(* an element is an error or a success, a success naming the path it       *)
(* acknowledges: the group's own name ("name") or another ("other").       *)
(***************************************************************************)
Element(success, path, value) == [success |-> success, path |-> path, value |-> value]

\* a scan that never sends the compensating request
RenameScan_NoCompensation(G, newName, allowExistingName, answers, req1, req2, netOk2) ==
    Done(G, "False", <<req1>>)

\* for answer in response.json(): ... ; req1 is the request made, req2 the
\* compensating one, netOk2 whether the transport delivers it
RECURSIVE RenameScan(_, _, _, _, _, _, _)
RenameScan(G, newName, allowExistingName, answers, req1, req2, netOk2) ==
    IF answers = <<>> THEN Done(G, "False", <<req1>>)
    ELSE LET answer == Head(answers)
         IN  IF ~answer.success \/ answer.path # "name"
             THEN RenameScan(G, newName, allowExistingName, Tail(answers), req1, req2, netOk2)
             ELSE IF answer.value = newName
             THEN Done([G EXCEPT !.name = newName], "True", <<req1>>)
             ELSE IF allowExistingName
             THEN Done([G EXCEPT !.name = answer.value], "True", <<req1>>)
             ELSE Done(G, IF netOk2 THEN "False" ELSE "PhueRequestError", <<req1, req2>>)

\* Group.rename
GroupRenameOp(G, user, newName, allowExistingName, ans, netOk2) ==
    LET req1 == Req("PUT", SendAuthRequestUrl(user, <<"groups", ToString(G.id)>>),
                    [name |-> newName])
        req2 == Req("PUT", SendAuthRequestUrl(user, <<"groups", ToString(G.id)>>),
                    [name |-> G.name])
    IN  CASE ans.kind = "neterr" -> Done(G, "PhueRequestError", <<req1>>)
          [] ans.kind = "httperr" -> Done(G, "False", <<req1>>)
          [] ans.kind = "garbage" -> Done(G, "JSONDecodeError", <<req1>>)
          [] OTHER -> RenameScan(G, newName, allowExistingName, ans.data, req1, req2, netOk2)

\* the names a caller gives a group and the bridge acknowledges
GroupNames == {NameKa, NameLb}

\* the lists the bridge answers a rename with: nothing, an error element,
\* or a success for the group's name, after an error or a success for
\* another path or not, and before a second success for the name or not
RenameLists ==
    {<<>>, <<Element(FALSE, "", <<>>)>>}
        \cup {p \o <<Element(TRUE, "name", n)>> \o q :
                p \in {<<>>, <<Element(FALSE, "", <<>>)>>, <<Element(TRUE, "other", NameLb)>>},
                q \in {<<>>} \cup {<<Element(TRUE, "name", m)>> : m \in GroupNames},
                n \in GroupNames}

RenameAnswers ==
    {Answer(k, <<>>) : k \in {"neterr", "httperr", "garbage"}}
        \cup {Answer("list", l) : l \in RenameLists}

GroupRename ==
    \E i \in DOMAIN groups, newName \in GroupNames, allowExistingName \in BOOLEAN,
       ans \in RenameAnswers :
    \E netOk2 \in BOOLEAN :
        GroupCall(i, "Group.rename",
                  [newName |-> newName, allowExistingName |-> allowExistingName,
                   answer |-> ans, prior |-> groups[i].name],
                  GroupRenameOp(groups[i], username, newName, allowExistingName, ans, netOk2))

\* a bridge with group 1, named 'Ka'
InitGroup == InitWithGroup(GroupEntry(1, NameKa))

NextRename == GroupRename \/ LookupGroup

SpecRename == InitGroup /\ [][NextRename]_vars

(***************************************************************************)
(* C12                                                                     *)
(***************************************************************************)
\* the successes for the group's name in the answer to the last rename
Acks ==
    SelectSeq(call.args.value.answer.data, LAMBDA e : e.success /\ e.path = "name")

\* the last call was a rename the bridge acknowledged with a name
Acknowledged ==
    /\ call.op = "Group.rename"
    /\ call.args.value.answer.kind = "list"
    /\ Acks # <<>>

\* C12: a rename the bridge acknowledges with newName makes newName the
\* local name, returns true and makes no second request; acknowledged
\* with another name it adopts that name and returns true when
\* allowExistingName is set, and otherwise keeps the local name, follows
\* its request with exactly one more, a PUT of the prior name to the same
\* resource, and fails: it returns false, or raises PhueRequestError when
\* the transport fails that second request.
C12_Rename ==
    Acknowledged
        => LET a == call.args.value
               name == DictGet(groups, call.args.id).name
           IN  IF Acks[1].value = a.newName
               THEN name = a.newName /\ call.result = "True" /\ Len(call.reqs) = 1
               ELSE IF a.allowExistingName
               THEN name = Acks[1].value /\ call.result = "True" /\ Len(call.reqs) = 1
               ELSE /\ name = a.prior
                    /\ Len(call.reqs) = 2
                    /\ call.reqs[1].data = [name |-> a.newName]
                    /\ call.reqs[2].method = "PUT"
                    /\ call.reqs[2].url = call.reqs[1].url
                    /\ call.reqs[2].data = [name |-> a.prior]
                    /\ call.result \in {"False", "PhueRequestError"}

\* a rename answered with another name, not allowed, that returned false
C12_Witness ==
    /\ Acknowledged
    /\ Acks[1].value # call.args.value.newName
    /\ ~call.args.value.allowExistingName
    /\ call.result = "False"
    /\ Len(call.reqs) = 2
    /\ DictGet(groups, call.args.id).name = call.args.value.prior

(***************************************************************************)
(* Group.scene                                                             *)
(***************************************************************************)
\* the first position of myScenes whose scene has the name, case
\* disregarded; 0 when there is none
RECURSIVE ScanMyScenes(_, _, _, _)
ScanMyScenes(myScenes, ss, sceneName, k) ==
    IF k > Len(myScenes) THEN 0
    ELSE IF Lower(DictGet(ss, myScenes[k]).name) = Lower(sceneName) THEN k
    ELSE ScanMyScenes(myScenes, ss, sceneName, k + 1)

\* a scene() that applies any scene the registry holds
GroupSceneOp_NoLinkCheck(G, ss, user, sceneId, sceneName, netOk) ==
    IF sceneId # "" /\ DictHas(ss, sceneId)
    THEN GroupRequest(G, user, "PUT", <<"action">>, [scene |-> sceneId], netOk)
    ELSE Done(G, "NoSuchScene", <<>>)

\* Group.scene(sceneId, sceneName)
GroupSceneOp(G, ss, user, sceneId, sceneName, netOk) ==
    IF sceneId = "" /\ sceneName = <<>>
    THEN Done(G, "SelectorError", <<>>)
    ELSE IF sceneId = ""
         THEN LET k == ScanMyScenes(G.myScenes, ss, sceneName, 1)
              IN  IF k = 0
                  THEN Done(G, "NoSuchSceneInGroup", <<>>)
                  ELSE GroupRequest(G, user, "PUT", <<"action">>,
                                    [scene |-> G.myScenes[k]], netOk)
         ELSE IF ~DictHas(ss, sceneId)
              THEN Done(G, "NoSuchScene", <<>>)
              ELSE IF \A k \in DOMAIN G.myScenes : G.myScenes[k] # sceneId
                   THEN Done(G, "NoSuchSceneInGroup", <<>>)
                   ELSE GroupRequest(G, user, "PUT", <<"action">>,
                                     [scene |-> sceneId], netOk)

\* the scene ids a caller asks for: none, those of the pool's group
\* scenes, and one no bridge holds
QueryScenes == {"", "s1", "s2", "s9"}

GroupScene ==
    \E i \in DOMAIN groups, sceneId \in QueryScenes :
    \E sceneName \in Selectors(sceneId # ""), netOk \in BOOLEAN :
        GroupCall(i, "Group.scene", [sceneId |-> sceneId, sceneName |-> sceneName],
                  GroupSceneOp(groups[i], scenes, username, sceneId, sceneName, netOk))

\* the registry one loadDevices() leaves
InitGroupScene ==
    /\ alive = TRUE
    /\ ip = "X"
    /\ username = "u1"
    /\ connected = FALSE
    /\ confFile = NoFile
    /\ probed = {}
    /\ \E gAns \in ScenesGroups, lAns \in ScenesLights, sAns \in ScenesScenes :
       \E r \in {loadDevices(<<>>, <<>>, <<>>, "u1", gAns, lAns, sAns)} :
            /\ groups = r.groups
            /\ lights = r.lights
            /\ scenes = r.scenes
            /\ call = Call("loadDevices",
                          [groups |-> Reported(gAns), lights |-> Reported(lAns),
                           scenes |-> Reported(sAns), complete |-> TRUE,
                           sceneData |-> sAns.data],
                          IF r.exc = "" THEN "None" ELSE r.exc, r.reqs, 0)

NextGroupScene == GroupScene

SpecGroupScene == InitGroupScene /\ [][NextGroupScene]_vars

(***************************************************************************)
(* C13                                                                     *)
(***************************************************************************)
\* the group the last call was made on
TheGroup == DictGet(groups, call.args.id)

\* id is one of the group's myScenes
Linked(id) == \E k \in DOMAIN TheGroup.myScenes : TheGroup.myScenes[k] = id

\* the last call made one request, the scene PUT for id
AppliedScene(id) ==
    /\ Len(call.reqs) = 1
    /\ call.reqs[1].method = "PUT"
    /\ call.reqs[1].data = [scene |-> id]

\* the positions in myScenes of the scenes named q, case disregarded
NamedInGroup(q) ==
    {k \in DOMAIN TheGroup.myScenes :
        Lower(DictGet(scenes, TheGroup.myScenes[k]).name) = Lower(q)}

\* C13: Group.scene makes no request other than the scene PUT of an id
\* that the registry holds and the group's myScenes lists; by id it raises
\* NoSuchScene for an id the registry does not hold and NoSuchSceneInGroup
\* for one it holds that the group does not list, with no request either
\* way, and applies the id otherwise; by name it applies the first of the
\* group's scenes whose name equals the query without regard to case.
C13_GroupScene ==
    call.op = "Group.scene"
        => LET a == call.args.value
           IN  /\ \A k \in DOMAIN call.reqs :
                    \E id \in DictKeys(scenes) : Linked(id) /\ AppliedScene(id)
               /\ (a.sceneId # "" /\ ~DictHas(scenes, a.sceneId))
                    => call.result = "NoSuchScene" /\ call.reqs = <<>>
               /\ (a.sceneId # "" /\ DictHas(scenes, a.sceneId) /\ ~Linked(a.sceneId))
                    => call.result = "NoSuchSceneInGroup" /\ call.reqs = <<>>
               /\ (a.sceneId # "" /\ DictHas(scenes, a.sceneId) /\ Linked(a.sceneId))
                    => AppliedScene(a.sceneId)
               /\ (a.sceneId = "" /\ a.sceneName # <<>> /\ NamedInGroup(a.sceneName) # {})
                    => AppliedScene(TheGroup.myScenes[Min(NamedInGroup(a.sceneName))])

\* a scene stored as 'ka' was applied to its group by the name 'Ka'
C13_Witness ==
    /\ call.op = "Group.scene"
    /\ call.args.value.sceneId = ""
    /\ call.args.value.sceneName = NameKa
    /\ call.result = "None"
    /\ AppliedScene("s1")
    /\ DictGet(scenes, "s1").name = Nameka

(***************************************************************************)
(* C14                                                                     *)
(***************************************************************************)
\* C14 as claimed: a connect() whose probe fails at the network level
\* returns false, and whenever connect() returns false the session is
\* unconnected afterwards; a probe answered with an error element raises
\* UnauthorizedUser.
C14_Claimed ==
    call.op = "connect"
        => /\ call.args.probe \in {"neterr", "httperr"} => call.result = "False"
           /\ call.result = "False" => ~connected
           /\ call.args.probe = "error" => call.result = "UnauthorizedUser"

(***************************************************************************)
(* C15                                                                     *)
(***************************************************************************)
\* C15 as claimed: in loadDevices() no failed fetch keeps another from being
\* made: the call makes its three fetches, of groups, lights and scenes, and
\* returns, however each was answered.
C15_Claimed ==
    call.op = "loadDevices"
        => /\ call.result = "None"
           /\ Len(call.reqs) = 3

(***************************************************************************)
(* C16                                                                     *)
(***************************************************************************)
\* C16 as claimed: as long as no connect() has succeeded, the groups, the
\* lights and the scenes of the registry are empty.
C16_Claimed ==
    ~connected => (groups = <<>> /\ lights = <<>> /\ scenes = <<>>)

(***************************************************************************)
(* C17                                                                     *)
(***************************************************************************)
\* an argument given to the constructor differs from what the file holds
Conflicts(ipArg, usernameArg) ==
    \/ ipArg # "" /\ ipArg # confFile.ip
    \/ usernameArg # "" /\ usernameArg # confFile.username

\* C17 as claimed: constructed over a stored config, with an address or a
\* credential that conflicts with it, the session completes construction,
\* the file is removed and the session holds the arguments alone; with no
\* argument it adopts the stored address and credential; with arguments
\* equal to the stored ones the file is kept.
C17_Claimed ==
    [][(call'.op = "Bridge" /\ confFile.exists)
        => LET ipArg == call'.args.ip
               usernameArg == call'.args.username
           IN  /\ Conflicts(ipArg, usernameArg)
                    => /\ call'.result = "None"
                       /\ ~confFile'.exists
                       /\ ip' = ipArg
                       /\ username' = usernameArg
               /\ (ipArg = "" /\ usernameArg = "")
                    => /\ ip' = confFile.ip
                       /\ username' = confFile.username
                       /\ confFile' = confFile
               /\ (ipArg = confFile.ip /\ usernameArg = confFile.username)
                    => confFile' = confFile
      ]_vars

(***************************************************************************)
(* C18                                                                     *)
(***************************************************************************)
\* C18 as claimed: after an on() that succeeded the light's cached on flag
\* is true, after an off() that succeeded it is false, and neither call
\* changes anything else of the light.
C18_Claimed ==
    [][(call'.op \in {"Light.on", "Light.off"} /\ call'.result = "None")
        => /\ DOMAIN lights' = DOMAIN lights
           /\ \A k \in DOMAIN lights :
                lights'[k] = IF lights[k].id = call'.args.id
                             THEN [lights[k] EXCEPT !.state.on = (call'.op = "Light.on")]
                             ELSE lights[k]
      ]_vars

(***************************************************************************)
(* Group.on, Group.off, Group.toggle                                       *)
(***************************************************************************)
\* Group.toggle: on() if isOff, that is if any_on is false, off() otherwise
GroupToggleOp(G, user, netOk) == GroupOnOff(G, user, ~G.state.any_on, netOk)

GroupOn ==
    \E i \in DOMAIN groups, netOk \in BOOLEAN :
        GroupCall(i, "Group.on", TRUE, GroupOnOff(groups[i], username, TRUE, netOk))

GroupOff ==
    \E i \in DOMAIN groups, netOk \in BOOLEAN :
        GroupCall(i, "Group.off", FALSE, GroupOnOff(groups[i], username, FALSE, netOk))

GroupToggle ==
    \E i \in DOMAIN groups, netOk \in BOOLEAN :
        GroupCall(i, "Group.toggle", groups[i].state.any_on,
                  GroupToggleOp(groups[i], username, netOk))

\* a bridge with group 1, none, some or all of its lights on
InitOnOff ==
    \E any \in BOOLEAN, all \in BOOLEAN :
        /\ all => any
        /\ InitWithGroup([GroupEntry(1, NameKa)
                            EXCEPT !.state = [all_on |-> all, any_on |-> any]])

NextOnOff == GroupOn \/ GroupOff \/ GroupToggle \/ GroupBrightness({0, BriMax})

SpecOnOff == InitOnOff /\ [][NextOnOff]_vars

(***************************************************************************)
(* C19                                                                     *)
(***************************************************************************)
\* the group of the given id, in a registry
GroupOfId(gs, id) == gs[CHOOSE k \in DOMAIN gs : gs[k].id = id]

\* C19: on(), off() and toggle() of a group leave any_on and all_on both at
\* the direction of the call, true for on(), false for off() and the
\* negation of the earlier any_on for toggle(), whether the request went
\* through or the transport failed it, and make one request, the PUT of
\* {on: direction}; so the two flags are equal after each such call and a
\* toggle() negates any_on.
C19_GroupOnOff ==
    [][call'.op \in {"Group.on", "Group.off", "Group.toggle"}
        => LET before == GroupOfId(groups, call'.args.id).state
               after == GroupOfId(groups', call'.args.id).state
               direction == CASE call'.op = "Group.on" -> TRUE
                              [] call'.op = "Group.off" -> FALSE
                              [] OTHER -> ~before.any_on
           IN  /\ after.any_on = direction
               /\ after.all_on = direction
               /\ call'.result \in {"None", "PhueRequestError"}
               /\ Len(call'.reqs) = 1
               /\ call'.reqs[1].method = "PUT"
               /\ call'.reqs[1].data = [on |-> direction]
      ]_vars

\* a toggle() of a group with some lights on whose request failed: both
\* flags are false all the same
C19_Witness ==
    /\ call.op = "Group.toggle"
    /\ call.args.value = TRUE
    /\ call.result = "PhueRequestError"
    /\ GroupOfId(groups, call.args.id).state = [all_on |-> FALSE, any_on |-> FALSE]
    /\ call.reqs[1].data = [on |-> FALSE]

(***************************************************************************)
(* C20                                                                     *)
(***************************************************************************)
\* C20 as claimed: the name of every group and light of the registry is
\* lower-case, whatever loads, renames and other calls came before.
C20_Claimed ==
    /\ \A k \in DOMAIN groups : groups[k].name = Lower(groups[k].name)
    /\ \A k \in DOMAIN lights : lights[k].name = Lower(lights[k].name)

====
